---- MODULE Spec2Model ----
(***************************************************************************)
(* Inverse dynamics by the Recursive Newton-Euler Algorithm (rnea) over    *)
(* the spatial-vector algebra of mujoco_golf_pendulum.                     *)
(*                                                                         *)
(* Numbers are exact integers.  A revolute joint coordinate q counts       *)
(* quarter turns (q * pi/2 radians), so that cos and sin are integers; a   *)
(* prismatic coordinate counts length units.  Body indices are 0-based as  *)
(* in the source, -1 is the fixed base.  A 6-vector is a tuple of six      *)
(* integers [angular(3); linear(3)], a matrix is a tuple of rows.          *)
(***************************************************************************)
EXTENDS Integers, Sequences, FiniteSets, TLC

\* ------------------------------------------------------------------------
\* numpy arithmetic used by the source

\* x @ y for two 1-D arrays of length 3 or 6
Dot(x, y) ==
    IF Len(x) = 3
    THEN x[1] * y[1] + x[2] * y[2] + x[3] * y[3]
    ELSE x[1] * y[1] + x[2] * y[2] + x[3] * y[3] + x[4] * y[4] + x[5] * y[5] + x[6] * y[6]

\* A @ x for a 3x3 or 6x6 matrix and a 1-D array
MatVec(A, x) ==
    IF Len(A) = 3
    THEN <<Dot(A[1], x), Dot(A[2], x), Dot(A[3], x)>>
    ELSE <<Dot(A[1], x), Dot(A[2], x), Dot(A[3], x),
           Dot(A[4], x), Dot(A[5], x), Dot(A[6], x)>>

\* A[:, c]
Col(A, c) ==
    IF Len(A) = 3
    THEN <<A[1][c], A[2][c], A[3][c]>>
    ELSE <<A[1][c], A[2][c], A[3][c], A[4][c], A[5][c], A[6][c]>>

\* A.T
Transpose(A) ==
    IF Len(A) = 3
    THEN <<Col(A, 1), Col(A, 2), Col(A, 3)>>
    ELSE <<Col(A, 1), Col(A, 2), Col(A, 3), Col(A, 4), Col(A, 5), Col(A, 6)>>

\* A @ B for two 3x3 or two 6x6 matrices: row r is B.T @ A[r]
MatMul(A, B) ==
    LET Bt == Transpose(B)
    IN  IF Len(A) = 3
        THEN <<MatVec(Bt, A[1]), MatVec(Bt, A[2]), MatVec(Bt, A[3])>>
        ELSE <<MatVec(Bt, A[1]), MatVec(Bt, A[2]), MatVec(Bt, A[3]),
               MatVec(Bt, A[4]), MatVec(Bt, A[5]), MatVec(Bt, A[6])>>

\* x + y, x - y, -x and x * c, elementwise on 1-D arrays of length 3 or 6
VecAdd(x, y) ==
    IF Len(x) = 3
    THEN <<x[1] + y[1], x[2] + y[2], x[3] + y[3]>>
    ELSE <<x[1] + y[1], x[2] + y[2], x[3] + y[3], x[4] + y[4], x[5] + y[5], x[6] + y[6]>>
VecSub(x, y) ==
    IF Len(x) = 3
    THEN <<x[1] - y[1], x[2] - y[2], x[3] - y[3]>>
    ELSE <<x[1] - y[1], x[2] - y[2], x[3] - y[3], x[4] - y[4], x[5] - y[5], x[6] - y[6]>>
VecScale(x, c) ==
    IF Len(x) = 3
    THEN <<x[1] * c, x[2] * c, x[3] * c>>
    ELSE <<x[1] * c, x[2] * c, x[3] * c, x[4] * c, x[5] * c, x[6] * c>>
VecNeg(x) == VecScale(x, -1)

\* -A, elementwise on a 3x3 matrix
MatNeg(A) == <<VecNeg(A[1]), VecNeg(A[2]), VecNeg(A[3])>>

\* np.zeros(3), np.zeros(6), np.zeros((3, 3)), np.eye(3), and the 6x6 identity
ZeroVec(n) == IF n = 3 THEN <<0, 0, 0>> ELSE <<0, 0, 0, 0, 0, 0>>
Zeros3x3 == <<ZeroVec(3), ZeroVec(3), ZeroVec(3)>>
Eye3 == << <<1, 0, 0>>, <<0, 1, 0>>, <<0, 0, 1>> >>
Eye6 ==
    << <<1, 0, 0, 0, 0, 0>>, <<0, 1, 0, 0, 0, 0>>, <<0, 0, 1, 0, 0, 0>>,
       <<0, 0, 0, 1, 0, 0>>, <<0, 0, 0, 0, 1, 0>>, <<0, 0, 0, 0, 0, 1>> >>

\* np.block([[A, B], [C, D]]) of four 3x3 blocks
Block(A, B, C, D) ==
    <<A[1] \o B[1], A[2] \o B[2], A[3] \o B[3],
      C[1] \o D[1], C[2] \o D[2], C[3] \o D[3]>>

\* np.linalg.det of a 3x3 matrix
Det3(E) ==
      E[1][1] * (E[2][2] * E[3][3] - E[2][3] * E[3][2])
    - E[1][2] * (E[2][1] * E[3][3] - E[2][3] * E[3][1])
    + E[1][3] * (E[2][1] * E[3][2] - E[2][2] * E[3][1])

\* np.abs
Abs(x) == IF x < 0 THEN 0 - x ELSE x

\* .shape == (n,) of a flattened 1-D array, .shape == (3, 3) of a 2-D array
\* mutant of IsVector: longer arrays pass
IsVector_AtLeast(v, n) == Len(v) >= n

IsVector(v, n) == Len(v) = n
Is3x3(A) == Len(A) = 3 /\ \A k \in 1..3 : Len(A[k]) = 3

\* np.cos(q), np.sin(q) with q in quarter turns
Cos(q) == CASE q % 4 = 0 -> 1 [] q % 4 = 1 -> 0 [] q % 4 = 2 -> 0 - 1 [] OTHER -> 0
Sin(q) == CASE q % 4 = 0 -> 0 [] q % 4 = 1 -> 1 [] q % 4 = 2 -> 0 [] OTHER -> 0 - 1

\* ------------------------------------------------------------------------
\* spatial_algebra/spatial_vectors.py

\* mutant of skew: the transposed matrix
skew_Transposed(v) ==
    << <<0, v[3], 0 - v[2]>>,
       <<0 - v[3], 0, v[1]>>,
       <<v[2], 0 - v[1], 0>> >>

skew(v) ==
    << <<0, 0 - v[3], v[2]>>,
       <<v[3], 0, 0 - v[1]>>,
       <<0 - v[2], v[1], 0>> >>

\* v[:3] and v[3:]
Angular(v) == <<v[1], v[2], v[3]>>
Linear(v) == <<v[4], v[5], v[6]>>

\* mutant of crm: the linear block above the diagonal
crm_LinearAbove(v) == Block(skew(Angular(v)), skew(Linear(v)), Zeros3x3, skew(Angular(v)))

crm(v) == Block(skew(Angular(v)), Zeros3x3, skew(Linear(v)), skew(Angular(v)))

\* mutant of crf: the blocks of crm, not transposed
crf_AsCrm(v) == Block(skew(Angular(v)), Zeros3x3, skew(Linear(v)), skew(Angular(v)))

crf(v) == Block(skew(Angular(v)), skew(Linear(v)), Zeros3x3, skew(Angular(v)))

\* what a call of a primitive gave: the value it returned, or the exception it raised
Value(x) == [raised |-> FALSE, exc |-> "", val |-> x]
Failure(exc) == [raised |-> TRUE, exc |-> exc, val |-> << >>]

\* the cross_type argument: omitted (the default "motion"), or given
NoCrossType == [present |-> FALSE, val |-> ""]
CrossType(k) == [present |-> TRUE, val |-> k]

\* mutant of CrossTypeOf: the default is "force"
CrossTypeOf_DefaultForce(cross_type) == IF cross_type.present THEN cross_type.val ELSE "force"

CrossTypeOf(cross_type) == IF cross_type.present THEN cross_type.val ELSE "motion"

spatial_cross(v, u, cross_type) ==
    CASE ~IsVector(v, 6) -> Failure("AssertionError: v must be 6x1 spatial vector")
      [] IsVector(v, 6) /\ ~IsVector(u, 6) ->
           Failure("AssertionError: u must be 6x1 spatial vector")
      [] OTHER ->
           CASE CrossTypeOf(cross_type) = "motion" -> Value(MatVec(crm(v), u))
             [] CrossTypeOf(cross_type) = "force" -> Value(MatVec(crf(v), u))
             [] OTHER -> Failure("ValueError: cross_type must be 'motion' or 'force'")

\* ------------------------------------------------------------------------
\* spatial_algebra/transforms.py

\* A 3x3 matrix handed to xrot is a tuple of rows whose entries count 1/steps:
\* steps = 1 for the whole-number matrices of the rest of the model, steps = 100
\* for matrices given in hundredths.  Its determinant is taken in millionths.
DetMillionths(E, steps) == IF steps = 1 THEN Det3(E) * 1000000 ELSE Det3(E)

\* np.isclose(a, b, atol=1e-6) of two numbers in millionths: numpy's test is
\* |a - b| <= atol + rtol * |b| with the default rtol = 1e-5
IsClose(a, b) == Abs(a - b) <= 1 + (Abs(b) \div 100000)

DetIsOne(E, steps) == IsClose(DetMillionths(E, steps), 1000000)

\* xrot on a matrix whose entries count 1/steps
xrotSteps(e_rot, steps) ==
    CASE ~Is3x3(e_rot) ->
           [raised |-> TRUE, exc |-> "AssertionError: E must be 3x3 rotation matrix", X |-> Eye6]
      [] Is3x3(e_rot) /\ ~DetIsOne(e_rot, steps) ->
           [raised |-> TRUE, exc |-> "ValueError: E may not be a valid rotation matrix", X |-> Eye6]
      [] OTHER ->
           [raised |-> FALSE, exc |-> "", X |-> Block(e_rot, Zeros3x3, Zeros3x3, e_rot)]

\* xrot raises ValueError unless the determinant is close to 1
xrot(e_rot) == xrotSteps(e_rot, 1)

xlt(r) == Block(Eye3, Zeros3x3, MatNeg(skew(r)), Eye3)

xtrans(e_rot, r) == Block(e_rot, Zeros3x3, MatNeg(MatMul(e_rot, skew(r))), e_rot)

\* mutant of inv_xtrans: the lower left block is E^T @ skew(r)
inv_xtrans_SkewLast(e_rot, r) ==
    Block(Transpose(e_rot), Zeros3x3, MatMul(Transpose(e_rot), skew(r)), Transpose(e_rot))

inv_xtrans(e_rot, r) ==
    Block(Transpose(e_rot), Zeros3x3, MatMul(skew(r), Transpose(e_rot)), Transpose(e_rot))

\* ------------------------------------------------------------------------
\* spatial_algebra/joints.py

\* the result of a call that returned (X, S)
Returned(X, S) == [raised |-> FALSE, exc |-> "", X |-> X, S |-> S]

\* the result of a call that raised exc
Raised(exc) == [raised |-> TRUE, exc |-> exc, X |-> Eye6, S |-> ZeroVec(6)]

\* mutant of RevoluteJoint: s_subspace about the opposite axis of the triple
RevoluteJoint_OtherAxis(e_rot, S) ==
    IF xrot(e_rot).raised
    THEN Raised(xrot(e_rot).exc)
    ELSE Returned(xrot(e_rot).X, <<S[3], S[2], S[1], 0, 0, 0>>)

\* mutant of RevoluteJoint: the rotation in the opposite sense
RevoluteJoint_Transposed(e_rot, S) ==
    IF xrot(Transpose(e_rot)).raised
    THEN Raised(xrot(Transpose(e_rot)).exc)
    ELSE Returned(xrot(Transpose(e_rot)).X, S)

\* xj_transform = xrot(e_rot) followed by the branch's s_subspace
RevoluteJoint(e_rot, S) ==
    IF xrot(e_rot).raised
    THEN Raised(xrot(e_rot).exc)
    ELSE Returned(xrot(e_rot).X, S)

\* mutant of UnsupportedTag: an unknown tag treated as a locked joint
UnsupportedTag_Locked(jtype, q) == Returned(Eye6, ZeroVec(6))

\* mutant of UnsupportedTag: the tag is matched whatever its case
UnsupportedTag_IgnoreCase(jtype, q) ==
    IF jtype \in {"rx", "RX"}
    THEN RevoluteJoint(<< <<1, 0, 0>>, <<0, Cos(q), 0 - Sin(q)>>, <<0, Sin(q), Cos(q)>> >>,
                       <<1, 0, 0, 0, 0, 0>>)
    ELSE Raised("ValueError: Unsupported joint type")

\* the else branch of jcalc
UnsupportedTag(jtype, q) == Raised("ValueError: Unsupported joint type")

jcalc(jtype, q) ==
    CASE jtype = "Rx" ->
           RevoluteJoint(<< <<1, 0, 0>>, <<0, Cos(q), 0 - Sin(q)>>, <<0, Sin(q), Cos(q)>> >>,
                         <<1, 0, 0, 0, 0, 0>>)
      [] jtype = "Ry" ->
           RevoluteJoint(<< <<Cos(q), 0, Sin(q)>>, <<0, 1, 0>>, <<0 - Sin(q), 0, Cos(q)>> >>,
                         <<0, 1, 0, 0, 0, 0>>)
      [] jtype = "Rz" ->
           RevoluteJoint(<< <<Cos(q), 0 - Sin(q), 0>>, <<Sin(q), Cos(q), 0>>, <<0, 0, 1>> >>,
                         <<0, 0, 1, 0, 0, 0>>)
      [] jtype = "Px" -> Returned(xlt(<<q, 0, 0>>), <<0, 0, 0, 1, 0, 0>>)
      [] jtype = "Py" -> Returned(xlt(<<0, q, 0>>), <<0, 0, 0, 0, 1, 0>>)
      [] jtype = "Pz" -> Returned(xlt(<<0, 0, q>>), <<0, 0, 0, 0, 0, 1>>)
      [] OTHER -> UnsupportedTag(jtype, q)

\* ------------------------------------------------------------------------
\* rigid_body_dynamics/rnea.py: the pieces of one call

\* magnitude of the default gravity, in units of 0.01 m/s^2
GRAVITY_M_S2 == 981

\* len(a) of a 0-based 1-D array
ArrLen(a) == Cardinality(DOMAIN a)

\* np.asarray(q).flatten(): a fresh 1-D copy holding the same elements
Flatten(a) == [k \in 0..(ArrLen(a) - 1) |-> a[k]]

\* np.zeros((6, nb)) as nb columns, np.zeros(nb)
ZeroCols(nb) == [j \in 0..(nb - 1) |-> ZeroVec(6)]
ZeroArr(nb) == [j \in 0..(nb - 1) |-> 0]

\* mutant of LengthCheck: only q is checked
LengthCheck_OnlyQ(q, qd, qdd, nb) ==
    IF ArrLen(q) # nb THEN "AssertionError: q must have length" ELSE ""

\* mutant of LengthCheck: the three lengths checked in the order qdd, qd, q
LengthCheck_QddFirst(q, qd, qdd, nb) ==
    IF ArrLen(qdd) # nb THEN "AssertionError: qdd must have length"
    ELSE IF ArrLen(qd) # nb THEN "AssertionError: qd must have length"
    ELSE IF ArrLen(q) # nb THEN "AssertionError: q must have length"
    ELSE ""

\* the three length assertions, in source order; "" when all pass
LengthCheck(q, qd, qdd, nb) ==
    IF ArrLen(q) # nb THEN "AssertionError: q must have length"
    ELSE IF ArrLen(qd) # nb THEN "AssertionError: qd must have length"
    ELSE IF ArrLen(qdd) # nb THEN "AssertionError: qdd must have length"
    ELSE ""

\* mutant of FextOrZeros: the default is an array of ones
FextOrZeros_Ones(f_ext, nb) ==
    IF f_ext.present THEN f_ext.cols ELSE [j \in 0..(nb - 1) |-> <<1, 1, 1, 1, 1, 1>>]

\* if f_ext is None: f_ext = np.zeros((6, nb))
FextOrZeros(f_ext, nb) == IF f_ext.present THEN f_ext.cols ELSE ZeroCols(nb)

\* mutant of GravityOf: the default points along +z
GravityOf_PlusZ(m) ==
    IF m.gravity.present THEN m.gravity.val ELSE <<0, 0, 0, 0, 0, GRAVITY_M_S2>>

\* model.get("gravity", np.array([0, 0, 0, 0, 0, -GRAVITY_M_S2]))
GravityOf(m) ==
    IF m.gravity.present THEN m.gravity.val ELSE <<0, 0, 0, 0, 0, 0 - GRAVITY_M_S2>>

\* v[:, i] = vj_velocity
RootVelocity(vj) == vj

\* mutant of RootAccel: gravity added instead of subtracted
RootAccel_PlusGravity(xj, a_grav, S, qddi) ==
    VecAdd(MatVec(xj, a_grav), VecScale(S, qddi))

\* mutant of RootAccel: the base acceleration forgotten
RootAccel_NoGravity(xj, a_grav, S, qddi) == VecScale(S, qddi)

\* a[:, i] = xj_transform @ (-a_grav) + s_subspace * qdd[i]
RootAccel(xj, a_grav, S, qddi) == VecAdd(MatVec(xj, VecNeg(a_grav)), VecScale(S, qddi))

\* xp_transform = xj_transform @ model["Xtree"][i], forward pass
XupForward(xj, xtree) == MatMul(xj, xtree)

\* v[:, i] = xp_transform @ v[:, p] + vj_velocity
ChildVelocity(xp, v, p, vj) == VecAdd(MatVec(xp, v[p]), vj)

\* mutant of ChildAccel: the velocity product taken of the parent's velocity
ChildAccel_ParentVelocity(xp, v, a, p, i, S, qddi, vj) ==
    VecAdd(VecAdd(MatVec(xp, a[p]), VecScale(S, qddi)), MatVec(crm(v[p]), vj))

\* a[:, i] = xp_transform @ a[:, p] + s_subspace * qdd[i] + crm(v[:, i]) @ vj_velocity
\* (v is the array after v[:, i] was assigned)
ChildAccel(xp, v, a, p, i, S, qddi, vj) ==
    VecAdd(VecAdd(MatVec(xp, a[p]), VecScale(S, qddi)), MatVec(crm(v[i]), vj))

\* mutant of BodyForce: the external force added instead of subtracted
BodyForce_PlusFext(inertia, ai, vi, fexti) ==
    VecAdd(VecAdd(MatVec(inertia, ai), MatVec(crf(vi), MatVec(inertia, vi))), fexti)

\* f_body = I[i] @ a[:, i] + crf(v[:, i]) @ (I[i] @ v[:, i]) - f_ext[:, i]
BodyForce(inertia, ai, vi, fexti) ==
    VecSub(VecAdd(MatVec(inertia, ai), MatVec(crf(vi), MatVec(inertia, vi))), fexti)

\* tau[i] = s_subspace @ f[:, i]
Project(S, fi) == Dot(S, fi)

\* mutant of XupBackward: the joint transform alone, as for a body on the base
XupBackward_NoXtree(jtype, qi, xtree) == jcalc(jtype, qi).X

\* xp_transform, _ = jcalc(...); xp_transform = xp_transform @ model["Xtree"][i]
XupBackward(jtype, qi, xtree) == MatMul(jcalc(jtype, qi).X, xtree)

\* The memory a call can reach is mem = [model, f_ext, v, a, f, tau]: the model
\* dict and the f_ext array it was handed (or its own zeros), and its buffers.
\* Its locals are loc = [nb, q, qd, qdd, a_grav].  A body step returns
\* [raised, exc, mem, xup]: the memory it leaves, and the composed transform it
\* used (<< >> for a body connected to the base).
StepOk(mem, xup) == [raised |-> FALSE, exc |-> "", mem |-> mem, xup |-> xup]
StepRaised(mem, exc) == [raised |-> TRUE, exc |-> exc, mem |-> mem, xup |-> << >>]

\* one iteration of the forward loop, with (Xj, S) = jc already computed
ForwardBodyWith(mem, loc, i, jc) ==
    LET m == mem.model
        vj == VecScale(jc.S, loc.qd[i])
    IN  IF m.parent[i] = -1
        THEN StepOk([mem EXCEPT !.v[i] = RootVelocity(vj),
                                !.a[i] = RootAccel(jc.X, loc.a_grav, jc.S, loc.qdd[i])],
                    << >>)
        ELSE LET p == m.parent[i]
                 xp == XupForward(jc.X, m.Xtree[i])
                 v1 == [mem.v EXCEPT ![i] = ChildVelocity(xp, mem.v, p, vj)]
                 a1 == [mem.a EXCEPT ![i] =
                            ChildAccel(xp, v1, mem.a, p, i, jc.S, loc.qdd[i], vj)]
             IN  StepOk([mem EXCEPT !.v = v1, !.a = a1], xp)

\* mutant of ForwardBody: Xj @ Xtree[i] used for every body, on the base or not
ForwardBody_ComposeAlways(mem, loc, i) ==
    LET jc == jcalc(mem.model.jtype[i], loc.q[i])
    IN  IF jc.raised THEN StepRaised(mem, jc.exc)
        ELSE ForwardBodyWith(mem, loc, i,
                             [jc EXCEPT !.X = MatMul(jc.X, mem.model.Xtree[i])])

\* mutant of ForwardBody: a parent that is not numbered below its child is refused
ForwardBody_CheckParent(mem, loc, i) ==
    LET jc == jcalc(mem.model.jtype[i], loc.q[i])
    IN  IF jc.raised THEN StepRaised(mem, jc.exc)
        ELSE IF mem.model.parent[i] >= i
        THEN StepRaised(mem, "ValueError: parent must precede child")
        ELSE ForwardBodyWith(mem, loc, i, jc)

\* one iteration of the forward loop (lines 83-111)
ForwardBody(mem, loc, i) ==
    LET jc == jcalc(mem.model.jtype[i], loc.q[i])
    IN  IF jc.raised THEN StepRaised(mem, jc.exc) ELSE ForwardBodyWith(mem, loc, i, jc)

\* one iteration of the backward loop, with S and the composed transform xp
\* already computed; f_ext[:, i] past the last column raises IndexError
BackwardBodyWith(mem, loc, i, S, xp) ==
    LET m == mem.model
    IN  IF i \notin DOMAIN mem.f_ext
        THEN StepRaised(mem, "IndexError")
        ELSE LET f_body == BodyForce(m.I[i], mem.a[i], mem.v[i], mem.f_ext[i])
                 f1 == [mem.f EXCEPT ![i] = VecAdd(mem.f[i], f_body)]
                 tau1 == [mem.tau EXCEPT ![i] = Project(S, f1[i])]
             IN  IF m.parent[i] # -1
                 THEN LET p == m.parent[i]
                      IN  StepOk([mem EXCEPT
                                    !.f = [f1 EXCEPT ![p] =
                                              VecAdd(f1[p], MatVec(Transpose(xp), f1[i]))],
                                    !.tau = tau1],
                                 xp)
                 ELSE StepOk([mem EXCEPT !.f = f1, !.tau = tau1], << >>)

\* mutant of BackwardBody: f_body built in place in the view f_ext[:, i]
BackwardBody_InPlace(mem, loc, i) ==
    LET r == BackwardBodyWith(mem, loc, i,
                              jcalc(mem.model.jtype[i], loc.q[i]).S,
                              XupBackward(mem.model.jtype[i], loc.q[i], mem.model.Xtree[i]))
    IN  IF r.raised THEN r
        ELSE [r EXCEPT !.mem.f_ext[i] =
                 BodyForce(mem.model.I[i], mem.a[i], mem.v[i], mem.f_ext[i])]

\* mutant of BackwardBody: the wrench of body i is also handed to body i - 1
BackwardBody_ToPrevious(mem, loc, i) ==
    LET r == BackwardBodyWith(mem, loc, i,
                              jcalc(mem.model.jtype[i], loc.q[i]).S,
                              XupBackward(mem.model.jtype[i], loc.q[i], mem.model.Xtree[i]))
    IN  IF r.raised \/ i = 0 \/ mem.model.parent[i] = i - 1 THEN r
        ELSE [r EXCEPT !.mem.f[i - 1] = VecAdd(@, r.mem.f[i])]

\* one iteration of the backward loop (lines 114-136)
BackwardBody(mem, loc, i) ==
    BackwardBodyWith(mem, loc, i,
                     jcalc(mem.model.jtype[i], loc.q[i]).S,
                     XupBackward(mem.model.jtype[i], loc.q[i], mem.model.Xtree[i]))

\* ------------------------------------------------------------------------
\* bounds and inputs

\* largest body count of a model
MaxNB == 3

\* the calls: call 1 alone under Spec, calls 1 and 2 interleaved under SpecConc
Calls == {1, 2}

\* the six joint tags of jcalc, and a tag it does not know
JointTags == {"Rx", "Ry", "Rz", "Px", "Py", "Pz"}
JtypeCycle == <<"Ry", "Px", "Rz", "Py", "Rx", "Pz", "rx">>
JtypeOffsets == 0..6
JtypeList(js, nb) == [i \in 0..(nb - 1) |-> JtypeCycle[((js + i) % 7) + 1]]

\* parent maps with parent[i] < i (for three bodies these are all six such
\* maps), and parent maps with some parent[i] >= i, parent[i] < NB
Topologies == {"chain", "star", "forest", "split", "tail", "pairs"}
UnorderedTopologies == {"reversed", "self", "cycle"}
ParentMap(topo, nb) ==
    [i \in 0..(nb - 1) |->
        CASE topo = "chain" -> i - 1
          [] topo = "reversed" -> IF i = nb - 1 THEN -1 ELSE i + 1
          [] topo = "self" -> i
          [] topo = "cycle" -> (i + 1) % nb
          [] topo = "star" -> IF i = 0 THEN -1 ELSE 0
          [] topo = "forest" -> -1
          [] topo = "split" -> IF i < 2 THEN -1 ELSE i - 2
          [] topo = "tail" -> IF i < 2 THEN -1 ELSE i - 1
          [] OTHER -> IF i % 2 = 0 THEN -1 ELSE i - 1]

\* spatial inertia of a body of mass m with centre of mass c and rotational
\* inertia Ic about it: [[Ic + m*C*C^T, m*C], [m*C^T, m*1]], C = skew(c)
SpatialInertia(m, c, Ic) ==
    LET C == skew(c)
        mCCt == MatMul(C, Transpose(C))
    IN  Block(<<VecAdd(Ic[1], VecScale(mCCt[1], m)), VecAdd(Ic[2], VecScale(mCCt[2], m)),
                VecAdd(Ic[3], VecScale(mCCt[3], m))>>,
              <<VecScale(C[1], m), VecScale(C[2], m), VecScale(C[3], m)>>,
              <<VecScale(Transpose(C)[1], m), VecScale(Transpose(C)[2], m),
                VecScale(Transpose(C)[3], m)>>,
              <<VecScale(Eye3[1], m), VecScale(Eye3[2], m), VecScale(Eye3[3], m)>>)

\* a point mass m at distance L along the body x axis
PointMassInertia(m, L) == SpatialInertia(m, <<L, 0, 0>>, Zeros3x3)

\* rotation by one quarter turn about z
RotZ90 == << <<0, -1, 0>>, <<1, 0, 0>>, <<0, 0, 1>> >>

\* the links a model is built from: body i is link (gs + i) mod 2
LinkCatalog ==
    << [I |-> PointMassInertia(2, 3), Xtree |-> Eye6],
       [I |-> SpatialInertia(1, <<0, 0, 1>>, << <<1, 0, 0>>, <<0, 2, 0>>, <<0, 0, 1>> >>),
        Xtree |-> xtrans(RotZ90, <<1, 0, 0>>)] >>
LinkOffsets == 0..1
LinkOf(gs, i) == LinkCatalog[((gs + i) % 2) + 1]

\* the gravity entry of a model: absent, or given
NoGravity == [present |-> FALSE, val |-> ZeroVec(6)]
Gravities == {NoGravity, [present |-> TRUE, val |-> <<0, 0, 0, 0, 0, -10>>]}

Models(nbs, topos, offsets, links, gravities) ==
    { [NB |-> nb,
       parent |-> ParentMap(topo, nb),
       jtype |-> JtypeList(js, nb),
       Xtree |-> [i \in 0..(nb - 1) |-> LinkOf(gs, i).Xtree],
       I |-> [i \in 0..(nb - 1) |-> LinkOf(gs, i).I],
       gravity |-> g] :
      nb \in nbs, topo \in topos, js \in offsets, gs \in links, g \in gravities }

\* single pendulums: one Ry body on the base, a point mass m at arm length L
PendulumMasses == 1..3
PendulumArms == 0..3
Pendulums ==
    { [NB |-> 1, parent |-> ParentMap("chain", 1), jtype |-> [i \in {0} |-> "Ry"],
       Xtree |-> [i \in {0} |-> Eye6], I |-> [i \in {0} |-> PointMassInertia(m, L)],
       gravity |-> g] :
      m \in PendulumMasses, L \in PendulumArms, g \in Gravities }

\* motions: entry k of q, qd, qdd is base + step * k
Motions ==
    { [q |-> <<0, 0>>, qd |-> <<0, 0>>, qdd |-> <<0, 0>>],
      [q |-> <<1, 1>>, qd |-> <<1, 0>>, qdd |-> <<0, 0>>],
      [q |-> <<1, 0>>, qd |-> <<1, 1>>, qdd |-> <<2, -1>>] }
Ramp(bs, n) == [k \in 0..(n - 1) |-> bs[1] + bs[2] * k]

\* external forces: none, all zero, or a pattern with n columns
NoFext == [present |-> FALSE, cols |-> << >>]
FextPattern(n) == [present |-> TRUE, cols |-> [j \in 0..(n - 1) |-> <<1, j, 0, 2, -1, j + 1>>]]
FextZeros(n) == [present |-> TRUE, cols |-> ZeroCols(n)]
Fexts(nb) ==
    {NoFext, FextZeros(nb), FextPattern(nb), FextPattern(nb + 1)}
        \cup (IF nb > 0 THEN {FextPattern(nb - 1)} ELSE {})

\* the arguments of a call: lengths nb + d[1], nb + d[2], nb + d[3]
CallArgs(mo, d, nb, fe) ==
    [q |-> Ramp(mo.q, nb + d[1]), qd |-> Ramp(mo.qd, nb + d[2]),
     qdd |-> Ramp(mo.qdd, nb + d[3]), f_ext |-> fe]

\* length defects: every way of getting at least one of the three lengths wrong by one
LenDefects(nb) ==
    { d \in {-1, 0, 1} \X {-1, 0, 1} \X {-1, 0, 1} :
        d # <<0, 0, 0>> /\ \A k \in 1..3 : nb + d[k] >= 0 }

\* ------------------------------------------------------------------------
\* inputs of the primitives of spatial_algebra

\* largest magnitude of a coordinate of a vector handed to a primitive
MaxCoord == 1

Coords == (0 - MaxCoord)..MaxCoord
Vec3s == { <<a, b, c>> : a \in Coords, b \in Coords, c \in Coords }
Vec6s == { w \o l : w \in Vec3s, l \in Vec3s }

\* vectors of general shape for the second argument of a product
Probes3 == { <<1, 0, 0>>, <<0, 1, 0>>, <<0, 0, 1>>, <<1, 2, 3>>, <<-2, 1, 5>> }
Probes6 == { <<1, 2, 3, 4, 5, 6>>, <<-1, 0, 2, 3, -2, 1>> }

\* arrays of the wrong shape
NotVec3s == { << >>, <<1>>, <<1, 2>>, <<1, 2, 3, 4>>, <<1, 2, 3, 4, 5, 6>> }
NotVec6s == { <<1, 2, 3>>, <<1, 2, 3, 4, 5>>, <<1, 2, 3, 4, 5, 6, 7>> }
Not3x3s == { << <<1, 0>>, <<0, 1>> >>, << <<1, 0, 0>>, <<0, 1, 0>> >> }

\* the rotation by q quarter turns about a coordinate axis
RotationAbout(axis, q) ==
    CASE axis = "x" -> << <<1, 0, 0>>, <<0, Cos(q), 0 - Sin(q)>>, <<0, Sin(q), Cos(q)>> >>
      [] axis = "y" -> << <<Cos(q), 0, Sin(q)>>, <<0, 1, 0>>, <<0 - Sin(q), 0, Cos(q)>> >>
      [] OTHER -> << <<Cos(q), 0 - Sin(q), 0>>, <<Sin(q), Cos(q), 0>>, <<0, 0, 1>> >>

\* the 24 rotation matrices with whole-number entries
Rotations ==
    { MatMul(MatMul(RotationAbout("x", a), RotationAbout("y", b)), RotationAbout("z", c)) :
        a \in 0..3, b \in 0..3, c \in 0..3 }

\* diag(a, b, c), and the identity with k added at row i, column j
Diag(a, b, c) == << <<a, 0, 0>>, <<0, b, 0>>, <<0, 0, c>> >>
Shear(i, j, k) ==
    << <<1, IF i = 1 /\ j = 2 THEN k ELSE 0, IF i = 1 /\ j = 3 THEN k ELSE 0>>,
       <<IF i = 2 /\ j = 1 THEN k ELSE 0, 1, IF i = 2 /\ j = 3 THEN k ELSE 0>>,
       <<IF i = 3 /\ j = 1 THEN k ELSE 0, IF i = 3 /\ j = 2 THEN k ELSE 0, 1>> >>

\* whole-number matrices for xrot: rotated stretches and reflections, rotated
\* shears, and scaled identities
Stretches == { Diag(a, b, c) : a \in Coords, b \in Coords, c \in Coords }
Shears == { Shear(i, j, k) : i \in 1..3, j \in 1..3, k \in Coords }
ScaledIdentities == { Diag(s, s, s) : s \in (0 - MaxCoord - 1)..(MaxCoord + 1) }
Matrices ==
    { MatMul(R, M) : R \in Rotations, M \in Stretches \cup Shears } \cup ScaledIdentities

\* matrices in hundredths near the identity: [[1, a, 0], [0, 1, b], [c, 0, 1]]
\* with a, b, c in hundredths (determinant 1 + a*b*c millionths), and s * I
Hundredths == 0..3
FineMatrices ==
    { << <<100, a, 0>>, <<0, 100, b>>, <<c, 0, 100>> >> :
        a \in Hundredths, b \in Hundredths, c \in Hundredths }
    \cup { Diag(s, s, s) : s \in 98..102 }

\* joint tags handed to jcalc, and joint coordinates
Tags == JointTags \cup {"rx", "RX", "", "Rw", "P", "fixed"}
JointCoords == -2..5

\* cross_type arguments of spatial_cross
CrossTypes ==
    { NoCrossType, CrossType("motion"), CrossType("force"), CrossType("Motion"),
      CrossType(""), CrossType("forces") }

\* ------------------------------------------------------------------------
\* state

VARIABLES
    model,   \* the model dict the calls share
    args,    \* args[c]: the caller's q, qd, qdd, f_ext of call c
    frame,   \* frame[c]: pc, loop index i, locals, the f_ext binding, the buffers' id
    heap,    \* heap[b]: the buffers v, a, f, tau allocated by a call
    ret,     \* ret[c]: what the caller got: nothing yet, tau, or an exception
    xlog,    \* xlog[c]: the composed transform each pass used for each body
    prim,    \* the primitives of spatial_algebra under call, and their arguments
    out      \* out[fn]: what the call of primitive fn gave

vars == <<model, args, frame, heap, ret, xlog, prim, out>>

NoArgs == [q |-> << >>, qd |-> << >>, qdd |-> << >>, f_ext |-> NoFext]
NoLocals == [nb |-> 0, q |-> << >>, qd |-> << >>, qdd |-> << >>, a_grav |-> ZeroVec(6)]
FrameAt(pc) == [pc |-> pc, i |-> 0, loc |-> NoLocals, f_ext |-> << >>, alias |-> FALSE, buf |-> 0]
NoBuffers == [v |-> << >>, a |-> << >>, f |-> << >>, tau |-> << >>]
NoReturn == [kind |-> "none", tau |-> << >>, exc |-> ""]
NoLog == [fwd |-> << >>, bwd |-> << >>]

NoPrim == [fns |-> {}]
NoOut == << >>

InitRest ==
    /\ heap = [b \in Calls |-> NoBuffers]
    /\ ret = [c \in Calls |-> NoReturn]
    /\ xlog = [c \in Calls |-> NoLog]
    /\ prim = NoPrim
    /\ out = NoOut

\* one call, right lengths: every model, motion and f_ext
InitWellFormed ==
    /\ model \in Models(0..MaxNB, Topologies, JtypeOffsets, LinkOffsets, Gravities)
    /\ \E mo \in Motions, fe \in Fexts(model.NB) :
           args = [c \in Calls |->
                      IF c = 1 THEN CallArgs(mo, <<0, 0, 0>>, model.NB, fe) ELSE NoArgs]
    /\ frame = [c \in Calls |-> IF c = 1 THEN FrameAt("call") ELSE FrameAt("off")]
    /\ InitRest

\* one call, wrong lengths
InitLenDefect ==
    /\ model \in Models(0..MaxNB, {"chain"}, JtypeOffsets, {0}, Gravities)
    /\ \E mo \in Motions, d \in LenDefects(model.NB) :
           args = [c \in Calls |->
                      IF c = 1 THEN CallArgs(mo, d, model.NB, NoFext) ELSE NoArgs]
    /\ frame = [c \in Calls |-> IF c = 1 THEN FrameAt("call") ELSE FrameAt("off")]
    /\ InitRest

\* one call on a single pendulum
InitPendulum ==
    /\ model \in Pendulums
    /\ \E mo \in Motions, fe \in {NoFext, FextZeros(1)} :
           args = [c \in Calls |->
                      IF c = 1 THEN CallArgs(mo, <<0, 0, 0>>, 1, fe) ELSE NoArgs]
    /\ frame = [c \in Calls |-> IF c = 1 THEN FrameAt("call") ELSE FrameAt("off")]
    /\ InitRest

\* one call on a model whose bodies are not numbered parent before child
InitUnordered ==
    /\ model \in Models(1..MaxNB, UnorderedTopologies, {0, 1, 4}, LinkOffsets, Gravities)
    /\ \E mo \in Motions, fe \in {NoFext, FextPattern(model.NB)} :
           args = [c \in Calls |->
                      IF c = 1 THEN CallArgs(mo, <<0, 0, 0>>, model.NB, fe) ELSE NoArgs]
    /\ frame = [c \in Calls |-> IF c = 1 THEN FrameAt("call") ELSE FrameAt("off")]
    /\ InitRest

Init == InitWellFormed \/ InitLenDefect \/ InitPendulum \/ InitUnordered

\* ------------------------------------------------------------------------
\* the call, step by step

RECURSIVE Range(_, _, _)
\* range(start, stop, step) with step 1 or -1, as the sequence of its values
Range(start, stop, step) ==
    IF (step > 0 /\ start >= stop) \/ (step < 0 /\ start <= stop)
    THEN << >>
    ELSE <<start>> \o Range(start + step, stop, step)

\* mutant of ForwardOrder: the bodies in descending order
ForwardOrder_Descending(nb) == Range(nb - 1, -1, -1)

\* line 83: for i in range(nb)
ForwardOrder(nb) == Range(0, nb, 1)

\* mutant of BackwardOrder: the bodies in ascending order
BackwardOrder_Ascending(nb) == Range(0, nb, 1)

\* line 114: for i in range(nb - 1, -1, -1)
BackwardOrder(nb) == Range(nb - 1, -1, -1)

\* mutant of After: the loop variable is not advanced
After_Stay(order, i) == i

\* body i is the last of a loop's order; the body the loop visits after body i
IsLast(order, i) == order[Len(order)] = i
After(order, i) == order[(CHOOSE k \in 1..Len(order) : order[k] = i) + 1]

\* mutant of NewBuffers: module-level buffers, the same for every call
NewBuffers_Shared(c) == 1

\* the id of the buffers a call allocates: fresh for every call (lines 77-80)
NewBuffers(c) == c

\* the memory call c can reach
Mem(c) ==
    [model |-> model, f_ext |-> frame[c].f_ext,
     v |-> heap[frame[c].buf].v, a |-> heap[frame[c].buf].a,
     f |-> heap[frame[c].buf].f, tau |-> heap[frame[c].buf].tau]

\* the memory a body step of call c left: the model and the caller's f_ext are
\* the objects the call was handed, the buffers are those it allocated
WriteBack(c, mem) ==
    /\ model' = mem.model
    /\ args' = IF frame[c].alias THEN [args EXCEPT ![c].f_ext.cols = mem.f_ext] ELSE args
    /\ heap' = [heap EXCEPT ![frame[c].buf] =
                   [v |-> mem.v, a |-> mem.a, f |-> mem.f, tau |-> mem.tau]]

RaiseIn(c, exc) ==
    /\ ret' = [ret EXCEPT ![c] = [kind |-> "raise", tau |-> << >>, exc |-> exc]]
    /\ frame' = [frame EXCEPT ![c].pc = "done"]

\* lines 60-80: flatten, check the lengths, default f_ext and gravity, allocate
Enter(c) ==
    /\ frame[c].pc = "call"
    /\ LET q == Flatten(args[c].q)
           qd == Flatten(args[c].qd)
           qdd == Flatten(args[c].qdd)
           nb == model.NB
           chk == LengthCheck(q, qd, qdd, nb)
       IN  IF chk # ""
           THEN /\ RaiseIn(c, chk)
                /\ UNCHANGED heap
           ELSE /\ frame' = [frame EXCEPT ![c] =
                        [pc |-> IF nb = 0 THEN "return" ELSE "forward",
                         i |-> IF nb = 0 THEN 0 ELSE ForwardOrder(nb)[1],
                         loc |-> [nb |-> nb, q |-> q, qd |-> qd, qdd |-> qdd,
                                  a_grav |-> GravityOf(model)],
                         f_ext |-> FextOrZeros(args[c].f_ext, nb),
                         alias |-> args[c].f_ext.present,
                         buf |-> NewBuffers(c)]]
                /\ heap' = [heap EXCEPT ![NewBuffers(c)] =
                               [v |-> ZeroCols(nb), a |-> ZeroCols(nb),
                                f |-> ZeroCols(nb), tau |-> ZeroArr(nb)]]
                /\ UNCHANGED ret
    /\ UNCHANGED <<model, args, xlog, prim, out>>

\* lines 83-111: the forward loop's iteration for body i
Forward(c) ==
    /\ frame[c].pc = "forward"
    /\ LET i == frame[c].i
           nb == frame[c].loc.nb
           r == ForwardBody(Mem(c), frame[c].loc, i)
       IN  /\ WriteBack(c, r.mem)
           /\ IF r.raised
              THEN RaiseIn(c, r.exc) /\ UNCHANGED xlog
              ELSE /\ frame' = [frame EXCEPT
                                  ![c].pc = IF IsLast(ForwardOrder(nb), i)
                                            THEN "backward" ELSE "forward",
                                  ![c].i = IF IsLast(ForwardOrder(nb), i)
                                           THEN BackwardOrder(nb)[1]
                                           ELSE After(ForwardOrder(nb), i),
                                  ![c].f_ext = r.mem.f_ext]
                   /\ xlog' = [xlog EXCEPT ![c].fwd = (i :> r.xup) @@ @]
                   /\ UNCHANGED ret
    /\ UNCHANGED <<prim, out>>

\* lines 114-136: the backward loop's iteration for body i
Backward(c) ==
    /\ frame[c].pc = "backward"
    /\ LET i == frame[c].i
           nb == frame[c].loc.nb
           r == BackwardBody(Mem(c), frame[c].loc, i)
       IN  /\ WriteBack(c, r.mem)
           /\ IF r.raised
              THEN RaiseIn(c, r.exc) /\ UNCHANGED xlog
              ELSE /\ frame' = [frame EXCEPT
                                  ![c].pc = IF IsLast(BackwardOrder(nb), i)
                                            THEN "return" ELSE "backward",
                                  ![c].i = IF IsLast(BackwardOrder(nb), i)
                                           THEN 0
                                           ELSE After(BackwardOrder(nb), i),
                                  ![c].f_ext = r.mem.f_ext]
                   /\ xlog' = [xlog EXCEPT ![c].bwd = (i :> r.xup) @@ @]
                   /\ UNCHANGED ret
    /\ UNCHANGED <<prim, out>>

\* line 138: return tau
Return(c) ==
    /\ frame[c].pc = "return"
    /\ ret' = [ret EXCEPT ![c] =
                  [kind |-> "tau", tau |-> heap[frame[c].buf].tau, exc |-> ""]]
    /\ frame' = [frame EXCEPT ![c].pc = "done"]
    /\ UNCHANGED <<model, args, heap, xlog, prim, out>>

Next == \E c \in Calls : Enter(c) \/ Forward(c) \/ Backward(c) \/ Return(c)

Spec == Init /\ [][Next]_vars

\* two calls on one model, their steps interleaved
InitConc ==
    /\ model \in Models({MaxNB - 1}, {"chain", "forest"}, {0, 2, 5}, {0}, {NoGravity})
    /\ \E m1 \in Motions, m2 \in Motions,
          f1 \in {NoFext, FextPattern(model.NB)}, f2 \in {NoFext, FextPattern(model.NB)} :
           args = [c \in Calls |->
                      CallArgs(IF c = 1 THEN m1 ELSE m2, <<0, 0, 0>>, model.NB,
                               IF c = 1 THEN f1 ELSE f2)]
    /\ frame = [c \in Calls |-> FrameAt("call")]
    /\ InitRest

SpecConc == InitConc /\ [][Next]_vars

\* call c is inside one of the two loops: exactly the states in which its
\* Forward or Backward step can be taken
InLoop(c) == frame[c].pc \in {"forward", "backward"}

\* weak fairness of the loop iterations of call c, with their enabling
\* condition written as InLoop(c)
LoopFair(c) == []<>(~InLoop(c)) \/ []<><<Forward(c) \/ Backward(c)>>_vars

\* one call run to its end: rnea is a plain function with no waiting, so a
\* call that has a step left takes it
SpecLive ==
    /\ Init /\ [][Next]_vars
    /\ \A c \in Calls : WF_vars(Enter(c)) /\ WF_vars(Return(c)) /\ LoopFair(c)

\* ------------------------------------------------------------------------
\* the primitives of spatial_algebra, called one at a time on 1-D arrays and
\* 2-D matrices (flatten() and asarray() copy those unchanged)

\* no rnea call is under way
InitIdle ==
    /\ model \in Models({0}, {"chain"}, {0}, {0}, {NoGravity})
    /\ args = [c \in Calls |-> NoArgs]
    /\ frame = [c \in Calls |-> FrameAt("off")]
    /\ heap = [b \in Calls |-> NoBuffers]
    /\ ret = [c \in Calls |-> NoReturn]
    /\ xlog = [c \in Calls |-> NoLog]

InitSkew == prim \in { [fns |-> {"skew"}, v |-> v] : v \in Vec3s \cup NotVec3s }

InitCrmCrf == prim \in { [fns |-> {"crm", "crf"}, v |-> v] : v \in Vec6s \cup NotVec6s }

InitSpatialCross ==
    \/ prim \in { [fns |-> {"spatial_cross"}, v |-> v, u |-> u, cross_type |-> k] :
                     v \in Vec6s, u \in Probes6, k \in CrossTypes }
    \/ prim \in { [fns |-> {"spatial_cross"}, v |-> v, u |-> u, cross_type |-> k] :
                     v \in NotVec6s \cup Probes6, u \in NotVec6s, k \in CrossTypes }

InitXrot ==
    \/ prim \in { [fns |-> {"xrot"}, E |-> E, steps |-> 1] : E \in Matrices \cup Not3x3s }
    \/ prim \in { [fns |-> {"xrot"}, E |-> E, steps |-> 100] : E \in FineMatrices }

InitXtrans ==
    \/ prim \in { [fns |-> {"xtrans", "inv_xtrans"}, E |-> E, r |-> r] :
                     E \in Rotations \cup {Shear(1, 2, 1), Diag(2, 2, 2), Diag(1, 1, -1)},
                     r \in Vec3s }
    \/ prim \in { [fns |-> {"xtrans", "inv_xtrans"}, E |-> E, r |-> r] :
                     E \in Not3x3s \cup {Eye3}, r \in NotVec3s }

InitJcalc == prim \in { [fns |-> {"jcalc"}, jtype |-> t, q |-> q] : t \in Tags, q \in JointCoords }

InitPrimitives ==
    /\ InitIdle
    /\ InitSkew \/ InitCrmCrf \/ InitSpatialCross \/ InitXrot \/ InitXtrans \/ InitJcalc
    /\ out = NoOut

\* primitive fn is to be called and has not been called yet
Pending(fn) == fn \in prim.fns /\ fn \notin DOMAIN out

\* the call of fn gave r
Gives(fn, r) ==
    /\ out' = (fn :> r) @@ out
    /\ UNCHANGED <<model, args, frame, heap, ret, xlog, prim>>

\* spatial_vectors.py 32-35
CallSkew ==
    /\ Pending("skew")
    /\ Gives("skew", IF ~IsVector(prim.v, 3)
                     THEN Failure("AssertionError: Input must be 3x1 vector")
                     ELSE Value(skew(prim.v)))

\* spatial_vectors.py 67-76
CallCrm ==
    /\ Pending("crm")
    /\ Gives("crm", IF ~IsVector(prim.v, 6)
                    THEN Failure("AssertionError: Input must be 6x1 spatial vector")
                    ELSE Value(crm(prim.v)))

\* spatial_vectors.py 109-118
CallCrf ==
    /\ Pending("crf")
    /\ Gives("crf", IF ~IsVector(prim.v, 6)
                    THEN Failure("AssertionError: Input must be 6x1 spatial vector")
                    ELSE Value(crf(prim.v)))

\* spatial_vectors.py 153-164
CallSpatialCross ==
    /\ Pending("spatial_cross")
    /\ Gives("spatial_cross", spatial_cross(prim.v, prim.u, prim.cross_type))

\* transforms.py 43-56
CallXrot ==
    /\ Pending("xrot")
    /\ Gives("xrot", xrotSteps(prim.E, prim.steps))

\* the shape assertions of xtrans and of inv_xtrans
ShapeCheck(E, r) ==
    CASE ~Is3x3(E) -> "AssertionError: E must be 3x3 matrix"
      [] Is3x3(E) /\ ~IsVector(r, 3) -> "AssertionError: r must be 3x1 vector"
      [] OTHER -> ""

\* transforms.py 130-138
CallXtrans ==
    /\ Pending("xtrans")
    /\ Gives("xtrans", IF ShapeCheck(prim.E, prim.r) # ""
                       THEN Failure(ShapeCheck(prim.E, prim.r))
                       ELSE Value(xtrans(prim.E, prim.r)))

\* transforms.py 171-180
CallInvXtrans ==
    /\ Pending("inv_xtrans")
    /\ Gives("inv_xtrans", IF ShapeCheck(prim.E, prim.r) # ""
                           THEN Failure(ShapeCheck(prim.E, prim.r))
                           ELSE Value(inv_xtrans(prim.E, prim.r)))

\* joints.py 56-101
CallJcalc ==
    /\ Pending("jcalc")
    /\ Gives("jcalc", jcalc(prim.jtype, prim.q))

NextPrimitives ==
    \/ CallSkew
    \/ CallCrm
    \/ CallCrf
    \/ CallSpatialCross
    \/ CallXrot
    \/ CallXtrans
    \/ CallInvXtrans
    \/ CallJcalc

SpecPrimitives == InitPrimitives /\ [][NextPrimitives]_vars

\* ------------------------------------------------------------------------
\* the call as a whole

\* the memory of a call after line 80
FreshMem(m, f_ext, nb) ==
    [model |-> m, f_ext |-> FextOrZeros(f_ext, nb),
     v |-> ZeroCols(nb), a |-> ZeroCols(nb), f |-> ZeroCols(nb), tau |-> ZeroArr(nb)]

\* the locals of a call after line 74
LocalsOf(m, a) ==
    [nb |-> m.NB, q |-> Flatten(a.q), qd |-> Flatten(a.qd), qdd |-> Flatten(a.qdd),
     a_grav |-> GravityOf(m)]

RECURSIVE ForwardLoop(_, _, _)
\* for i in range(nb), from body i on
ForwardLoop(mem, loc, i) ==
    IF i >= loc.nb THEN StepOk(mem, << >>)
    ELSE LET r == ForwardBody(mem, loc, i)
         IN  IF r.raised THEN r ELSE ForwardLoop(r.mem, loc, i + 1)

RECURSIVE BackwardLoop(_, _, _)
\* for i in range(nb - 1, -1, -1), from body i on
BackwardLoop(mem, loc, i) ==
    IF i < 0 THEN StepOk(mem, << >>)
    ELSE LET r == BackwardBody(mem, loc, i)
         IN  IF r.raised THEN r ELSE BackwardLoop(r.mem, loc, i - 1)

\* what a loop's outcome r gives the caller
Outcome(r) ==
    IF r.raised THEN [kind |-> "raise", tau |-> << >>, exc |-> r.exc]
    ELSE [kind |-> "tau", tau |-> r.mem.tau, exc |-> ""]

\* rnea(m, a.q, a.qd, a.qdd, a.f_ext) run alone: the memory it ends with
RunAloneMem(m, a) ==
    LET loc == LocalsOf(m, a)
        fwd == ForwardLoop(FreshMem(m, a.f_ext, m.NB), loc, 0)
    IN  IF fwd.raised THEN fwd ELSE BackwardLoop(fwd.mem, loc, m.NB - 1)

\* rnea(m, a.q, a.qd, a.qdd, a.f_ext) run alone: what the caller gets
RunAlone(m, a) ==
    IF LengthCheck(Flatten(a.q), Flatten(a.qd), Flatten(a.qdd), m.NB) # ""
    THEN [kind |-> "raise", tau |-> << >>,
          exc |-> LengthCheck(Flatten(a.q), Flatten(a.qd), Flatten(a.qdd), m.NB)]
    ELSE Outcome(RunAloneMem(m, a))

\* The variant of rnea that keeps the (Xj, S) the forward pass computed for each
\* body and uses them in the backward pass instead of calling jcalc again.
RECURSIVE CachedForward(_, _, _, _)
\* returns [raised, exc, mem, cache]
CachedForward(mem, loc, i, cache) ==
    IF i >= loc.nb THEN [raised |-> FALSE, exc |-> "", mem |-> mem, cache |-> cache]
    ELSE LET jc == jcalc(mem.model.jtype[i], loc.q[i])
         IN  IF jc.raised
             THEN [raised |-> TRUE, exc |-> jc.exc, mem |-> mem, cache |-> cache]
             ELSE CachedForward(ForwardBodyWith(mem, loc, i, jc).mem, loc, i + 1,
                                (i :> jc) @@ cache)

RECURSIVE CachedBackward(_, _, _, _)
CachedBackward(mem, loc, i, cache) ==
    IF i < 0 THEN StepOk(mem, << >>)
    ELSE LET r == BackwardBodyWith(mem, loc, i, cache[i].S,
                                   MatMul(cache[i].X, mem.model.Xtree[i]))
         IN  IF r.raised THEN r ELSE CachedBackward(r.mem, loc, i - 1, cache)

RneaCached(m, a) ==
    IF LengthCheck(Flatten(a.q), Flatten(a.qd), Flatten(a.qdd), m.NB) # ""
    THEN [kind |-> "raise", tau |-> << >>,
          exc |-> LengthCheck(Flatten(a.q), Flatten(a.qd), Flatten(a.qdd), m.NB)]
    ELSE LET loc == LocalsOf(m, a)
             fwd == CachedForward(FreshMem(m, a.f_ext, m.NB), loc, 0, << >>)
         IN  IF fwd.raised THEN Outcome(fwd)
             ELSE Outcome(CachedBackward(fwd.mem, loc, m.NB - 1, fwd.cache))

\* ------------------------------------------------------------------------
\* vocabulary of the properties

\* parent[i] < i for every body
Topological(m) == \A i \in 0..(m.NB - 1) : m.parent[i] >= -1 /\ m.parent[i] < i

\* the buffers of call c
Buf(c) == heap[frame[c].buf]

\* the bodies whose forward and backward iteration call c has completed
ForwardDone(c) == DOMAIN xlog[c].fwd
BackwardDone(c) == DOMAIN xlog[c].bwd

\* (Xj, S) of body i of the model at the call's q, and Xj @ Xtree[i]
JointOf(c, i) == jcalc(model.jtype[i], frame[c].loc.q[i])
XupOf(c, i) == MatMul(JointOf(c, i).X, model.Xtree[i])

RECURSIVE ChildWrenches(_, _, _)
\* the sum over the children k < n of body i of XupOf(c, k)^T @ f[:, k]
ChildWrenches(c, i, n) ==
    IF n = 0 THEN ZeroVec(6)
    ELSE IF model.parent[n - 1] = i
         THEN VecAdd(ChildWrenches(c, i, n - 1),
                     MatVec(Transpose(XupOf(c, n - 1)), Buf(c).f[n - 1]))
         ELSE ChildWrenches(c, i, n - 1)

\* I[i] @ a[:, i] + crf(v[:, i]) @ (I[i] @ v[:, i]) - f_ext[:, i] on the buffers of call c
NetWrench(c, i) ==
    VecSub(VecAdd(MatVec(model.I[i], Buf(c).a[i]),
                  MatVec(crf(Buf(c).v[i]), MatVec(model.I[i], Buf(c).v[i]))),
           frame[c].f_ext[i])

\* ------------------------------------------------------------------------
\* the claims

\* C1: when rnea returns, f[i] = I[i] a[i] + crf(v[i]) (I[i] v[i]) - f_ext[i] plus
\* the sum over the children j of i of (Xj_j Xtree[j])^T f[j], and the returned
\* tau[i] is the inner product of S_i with that f[i].
C1_NetWrenchAndTorque ==
    \A c \in Calls :
        (ret[c].kind = "tau" /\ Topological(model)) =>
            \A i \in 0..(model.NB - 1) :
                /\ Buf(c).f[i] = VecAdd(NetWrench(c, i), ChildWrenches(c, i, model.NB))
                /\ ret[c].tau[i] = Dot(JointOf(c, i).S, Buf(c).f[i])

\* C1 witness: a call returned tau for a body with two children whose wrenches
\* and external force are not zero.
C1_Witness ==
    /\ ret[1].kind = "tau"
    /\ model.NB = 3 /\ model.parent[1] = 0 /\ model.parent[2] = 0
    /\ args[1].f_ext.present /\ args[1].f_ext.cols[0] # ZeroVec(6)
    /\ MatVec(Transpose(XupOf(1, 1)), Buf(1).f[1]) # ZeroVec(6)
    /\ MatVec(Transpose(XupOf(1, 2)), Buf(1).f[2]) # ZeroVec(6)
    /\ ret[1].tau[0] # 0

\* C2: for every body i the forward pass has processed whose parent p is not the
\* base, v[i] = Xup v[p] + S qd[i] and a[i] = Xup a[p] + S qdd[i] + crm(v[i]) S qd[i]
\* with Xup = Xj Xtree[i], crm taken of the body's own updated velocity.
C2_ForwardChild ==
    \A c \in Calls :
        Topological(model) =>
            \A i \in ForwardDone(c) :
                model.parent[i] # -1 =>
                    LET p == model.parent[i]
                        S == JointOf(c, i).S
                        vJ == VecScale(S, frame[c].loc.qd[i])
                    IN  /\ Buf(c).v[i] = VecAdd(MatVec(XupOf(c, i), Buf(c).v[p]), vJ)
                        /\ Buf(c).a[i] =
                               VecAdd(VecAdd(MatVec(XupOf(c, i), Buf(c).a[p]),
                                             VecScale(S, frame[c].loc.qdd[i])),
                                      MatVec(crm(Buf(c).v[i]), vJ))

\* C2 witness: a processed child body whose velocity-product term is not zero and
\* differs from the one the parent's velocity would give.
C2_Witness ==
    \E i \in ForwardDone(1) :
        /\ model.parent[i] # -1
        /\ LET vJ == VecScale(JointOf(1, i).S, frame[1].loc.qd[i])
           IN  /\ MatVec(crm(Buf(1).v[i]), vJ) # ZeroVec(6)
               /\ MatVec(crm(Buf(1).v[i]), vJ) # MatVec(crm(Buf(1).v[model.parent[i]]), vJ)

\* C3: for every processed body i connected to the base, v[i] = S qd[i] and
\* a[i] = Xj (-gravity) + S qdd[i]; the backward pass adds no gravity term: a
\* body without children ends with f[i] = I a + crf(v) I v - f_ext[i].
C3_ForwardRoot ==
    \A c \in Calls :
        /\ \A i \in ForwardDone(c) :
               model.parent[i] = -1 =>
                   /\ Buf(c).v[i] = VecScale(JointOf(c, i).S, frame[c].loc.qd[i])
                   /\ Buf(c).a[i] =
                          VecAdd(MatVec(JointOf(c, i).X, VecNeg(GravityOf(model))),
                                 VecScale(JointOf(c, i).S, frame[c].loc.qdd[i]))
        /\ \A i \in BackwardDone(c) :
               (\A k \in 0..(model.NB - 1) : model.parent[k] # i) =>
                   Buf(c).f[i] = NetWrench(c, i)

\* C3 witness: a model with two bodies connected to the base, both processed,
\* the second with a gravity term its joint transform rotates.
C3_Witness ==
    /\ model.NB >= 2 /\ model.parent[0] = -1 /\ model.parent[1] = -1
    /\ {0, 1} \subseteq BackwardDone(1)
    /\ MatVec(JointOf(1, 1).X, VecNeg(GravityOf(model))) # VecNeg(GravityOf(model))
    /\ frame[1].loc.qdd[1] # 0

\* C4: for every body not on the base the backward pass transposes exactly the
\* composed transform Xj Xtree[i] the forward pass used for it, and the variant
\* of rnea that caches (Xj, S) in the forward pass gives the caller the same
\* result for every input.
C4_SameXupBothPasses ==
    \A c \in Calls :
        /\ \A i \in BackwardDone(c) :
               model.parent[i] # -1 => xlog[c].bwd[i] = xlog[c].fwd[i]
        /\ ret[c].kind # "none" => ret[c] = RneaCached(model, args[c])

\* C4 witness: a returned call in which a body's composed transform is neither
\* its joint transform nor its tree transform.
C4_Witness ==
    /\ ret[1].kind = "tau"
    /\ \E i \in BackwardDone(1) :
           /\ model.parent[i] # -1
           /\ xlog[1].bwd[i] # JointOf(1, i).X
           /\ xlog[1].bwd[i] # model.Xtree[i]
           /\ Buf(1).f[i] # ZeroVec(6)
           /\ MatVec(Transpose(xlog[1].bwd[i]), Buf(1).f[i])
                  # MatVec(Transpose(JointOf(1, i).X), Buf(1).f[i])

\* the model is a single pendulum: one Ry body on the base with Xtree = I(6),
\* gravity [0,0,0,0,0,-g], a point mass m at arm length L along x
IsPendulum(m, L, g) ==
    /\ model.NB = 1 /\ model.parent[0] = -1 /\ model.jtype[0] = "Ry"
    /\ model.Xtree[0] = Eye6
    /\ GravityOf(model) = <<0, 0, 0, 0, 0, 0 - g>>
    /\ model.I[0] = PointMassInertia(m, L)

\* the call is static at q = 0 with no external force
IsStatic(c) ==
    /\ args[c].q = (0 :> 0) /\ args[c].qd = (0 :> 0) /\ args[c].qdd = (0 :> 0)
    /\ (args[c].f_ext.present => args[c].f_ext.cols = ZeroCols(1))

\* C5: on a single pendulum (point mass m at arm length L, gravity g along -z),
\* the static call at q = 0 returns one torque of magnitude m g L.
C5_SinglePendulum ==
    \A c \in Calls : \A m \in PendulumMasses, L \in PendulumArms, g \in {10, GRAVITY_M_S2} :
        (ret[c].kind # "none" /\ IsPendulum(m, L, g) /\ IsStatic(c)) =>
            /\ ret[c].kind = "tau"
            /\ DOMAIN ret[c].tau = {0}
            /\ Abs(ret[c].tau[0]) = m * g * L

\* C5 witness: the static call returned on a pendulum with m = 2, L = 3 and the
\* default gravity.
C5_Witness ==
    /\ ret[1].kind = "tau" /\ IsPendulum(2, 3, GRAVITY_M_S2) /\ IsStatic(1)
    /\ ~model.gravity.present
    /\ Abs(ret[1].tau[0]) = 2 * GRAVITY_M_S2 * 3

\* C6: rnea is read-only on its inputs: no step of a call, completing or
\* raising, changes the model or the caller's q, qd, qdd, f_ext.
C6_InputsReadOnly == [][model' = model /\ args' = args]_vars

\* C6 witness: a call returned that was handed a non-zero f_ext, on two bodies
\* or more.
C6_Witness ==
    /\ ret[1].kind = "tau" /\ model.NB >= 2
    /\ args[1].f_ext.present /\ args[1].f_ext.cols[1] # ZeroVec(6)
    /\ Buf(1).f[1] # ZeroVec(6)

\* the buffers a memory holds
BuffersOf(mem) == [v |-> mem.v, a |-> mem.a, f |-> mem.f, tau |-> mem.tau]

\* C7: two calls sharing one model, their per-body steps interleaved in any
\* order, each give their caller what the call gives when run alone, and leave
\* in their own buffers what the call alone leaves: neither reads or writes the
\* other's v, a, f, tau.
C7_InterleavedCallsIsolated ==
    \A c \in Calls :
        /\ ret[c].kind # "none" => ret[c] = RunAlone(model, args[c])
        /\ ret[c].kind = "tau" => Buf(c) = BuffersOf(RunAloneMem(model, args[c]).mem)
        /\ \A d \in Calls :
               (c # d /\ frame[c].pc \notin {"call", "off"} /\ frame[d].pc \notin {"call", "off"}
                    /\ ret[c].kind # "raise" /\ ret[d].kind # "raise")
                   => frame[c].buf # frame[d].buf

\* C7 witness: call 1 has returned a torque that is not the one of call 2, while
\* call 2 is in the middle of its backward pass.
C7_Witness ==
    /\ ret[1].kind = "tau"
    /\ frame[2].pc = "backward" /\ BackwardDone(2) # {}
    /\ RunAlone(model, args[2]).kind = "tau"
    /\ ret[1].tau # RunAlone(model, args[2]).tau

\* the exceptions the length assertions raise (DimensionMismatch), and the one
\* of jcalc's else branch (UnsupportedJointType)
DimensionMismatch ==
    { "AssertionError: q must have length", "AssertionError: qd must have length",
      "AssertionError: qdd must have length" }
UnsupportedJointType == "ValueError: Unsupported joint type"

\* some length of q, qd, qdd of call c differs from NB
WrongLength(c) ==
    \/ ArrLen(args[c].q) # model.NB
    \/ ArrLen(args[c].qd) # model.NB
    \/ ArrLen(args[c].qdd) # model.NB

\* C8: whenever the length of q, of qd or of qdd differs from NB, the call
\* processes no body and ends by raising DimensionMismatch, the caller getting
\* no tau.
C8_LengthMismatchRaises ==
    \A c \in Calls :
        (WrongLength(c) /\ frame[c].pc # "off") =>
            /\ frame[c].pc \in {"call", "done"}
            /\ frame[c].pc = "done" =>
                   /\ ret[c].kind = "raise"
                   /\ ret[c].exc \in DimensionMismatch
                   /\ ret[c].tau = << >>

\* C8 witness: a call raised on a qdd that is too long, q and qd being right.
C8_Witness ==
    /\ frame[1].pc = "done" /\ ret[1].kind = "raise"
    /\ model.NB >= 1
    /\ ArrLen(args[1].q) = model.NB /\ ArrLen(args[1].qd) = model.NB
    /\ ArrLen(args[1].qdd) = model.NB + 1

\* C9: whenever a supplied f_ext does not have NB columns (the model having a
\* body, q, qd, qdd being of the right length and every joint tag supported),
\* the call ends by raising DimensionMismatch.
C9_FextShapeChecked ==
    \A c \in Calls :
        (/\ frame[c].pc = "done"
         /\ model.NB >= 1
         /\ ~WrongLength(c)
         /\ \A k \in 0..(model.NB - 1) : model.jtype[k] \in JointTags
         /\ args[c].f_ext.present
         /\ ArrLen(args[c].f_ext.cols) # model.NB)
            => (ret[c].kind = "raise" /\ ret[c].exc \in DimensionMismatch)

\* C10: if some jtype[k] is outside the six tags (the lengths being right), the
\* call never reaches the backward pass and ends by raising
\* UnsupportedJointType, the caller getting no tau.
C10_UnsupportedTagRaises ==
    \A c \in Calls :
        (/\ frame[c].pc # "off"
         /\ ~WrongLength(c)
         /\ \E k \in 0..(model.NB - 1) : model.jtype[k] \notin JointTags)
            => /\ frame[c].pc \in {"call", "forward", "done"}
               /\ ret[c].kind # "tau"
               /\ frame[c].pc = "done" =>
                      /\ ret[c].kind = "raise"
                      /\ ret[c].exc = UnsupportedJointType
                      /\ ret[c].tau = << >>

\* C10 witness: a call raised at body 2 after bodies 0 and 1 were processed.
C10_Witness ==
    /\ frame[1].pc = "done" /\ ret[1].kind = "raise" /\ ret[1].exc = UnsupportedJointType
    /\ ForwardDone(1) = {0, 1}
    /\ model.jtype[2] \notin JointTags
    /\ Buf(1).a[1] # ZeroVec(6)

\* ------------------------------------------------------------------------
\* the primitives of spatial_algebra

\* primitive fn has been called, and it returned a value
Called(fn) == fn \in DOMAIN out
ReturnedValue(fn) == Called(fn) /\ ~out[fn].raised

\* C11: for every 6-vector v, crf(v) equals -crm(v)^T entry for entry
C11_CrfIsNegCrmTransposed ==
    (Called("crm") /\ Called("crf") /\ IsVector(prim.v, 6)) =>
        /\ ReturnedValue("crm")
        /\ ReturnedValue("crf")
        /\ \A i \in 1..6, j \in 1..6 :
               out["crf"].val[i][j] = 0 - out["crm"].val[j][i]

\* both were called on a vector with angular and linear parts that differ
C11_Witness ==
    /\ ReturnedValue("crm")
    /\ ReturnedValue("crf")
    /\ prim.v = <<1, -1, 0, 0, 1, -1>>
    /\ out["crf"].val # out["crm"].val

\* the 3D cross product v x u
Cross3(v, u) ==
    <<v[2] * u[3] - v[3] * u[2], v[3] * u[1] - v[1] * u[3], v[1] * u[2] - v[2] * u[1]>>

\* C12: for all 3-vectors v and u, skew(v) . u equals the cross product v x u
C12_SkewIsCrossProduct ==
    (Called("skew") /\ IsVector(prim.v, 3)) =>
        /\ ReturnedValue("skew")
        /\ \A u \in Vec3s \cup Probes3 : MatVec(out["skew"].val, u) = Cross3(prim.v, u)

\* skew returned for a v with three different coordinates
C12_Witness ==
    /\ ReturnedValue("skew")
    /\ prim.v = <<1, -1, 0>>
    /\ MatVec(out["skew"].val, <<1, 2, 3>>) = <<-3, -3, 3>>

\* the unit 6-vectors
Units6 == { Eye6[k] : k \in 1..6 }

\* C13: for all 6-vectors v = [w; u] and m = [mw; mu], crm(v) . m is the spatial
\* motion cross product [w x mw; u x mw + w x mu], crm(v) being the block
\* matrix [[skew(w), 0], [skew(u), skew(w)]]
C13_CrmIsMotionCross ==
    (Called("crm") /\ IsVector(prim.v, 6)) =>
        LET w == Angular(prim.v)
            u == Linear(prim.v)
        IN  /\ ReturnedValue("crm")
            /\ out["crm"].val = Block(skew(w), Zeros3x3, skew(u), skew(w))
            /\ \A m \in Units6 \cup Probes6 :
                   MatVec(out["crm"].val, m) =
                       Cross3(w, Angular(m))
                           \o VecAdd(Cross3(u, Angular(m)), Cross3(w, Linear(m)))

\* crm returned for a v whose angular and linear parts are not parallel
C13_Witness ==
    /\ ReturnedValue("crm")
    /\ prim.v = <<1, 0, -1, 0, 1, 1>>
    /\ MatVec(out["crm"].val, <<1, 2, 3, 4, 5, 6>>) = <<2, -4, 2, 6, -9, 4>>

\* E, with entries counting 1/steps, is orthonormal; its determinant is exactly 1
Orthonormal(E, steps) ==
    MatMul(E, Transpose(E)) = Diag(steps * steps, steps * steps, steps * steps)
DetExactlyOne(E, steps) == Det3(E) = steps * steps * steps

\* E is a rotation matrix: orthonormal with determinant 1
IsRotation(E, steps) == Is3x3(E) /\ Orthonormal(E, steps) /\ DetExactlyOne(E, steps)

\* C14: for every rotation matrix E and every translation r,
\* xtrans(E, r) @ inv_xtrans(E, r) is the 6x6 identity
C14_XtransTimesInverse ==
    (Called("xtrans") /\ Called("inv_xtrans")
        /\ IsRotation(prim.E, 1) /\ IsVector(prim.r, 3)) =>
        /\ ReturnedValue("xtrans")
        /\ ReturnedValue("inv_xtrans")
        /\ MatMul(out["xtrans"].val, out["inv_xtrans"].val) = Eye6

\* both returned for a quarter turn about z and a translation off every axis
C14_Witness ==
    /\ ReturnedValue("xtrans")
    /\ ReturnedValue("inv_xtrans")
    /\ prim.E = << <<0, -1, 0>>, <<1, 0, 0>>, <<0, 0, 1>> >>
    /\ prim.r = <<1, -1, 1>>
    /\ out["xtrans"].val # out["inv_xtrans"].val

\* the InvalidRotation of the error taxonomy
InvalidRotation == "ValueError: E may not be a valid rotation matrix"

\* C15: xrot(E) returns [[E, 0], [0, E]] when the 3x3 matrix E is orthonormal
\* with determinant 1, and fails with InvalidRotation for every 3x3 E with
\* E @ E^T # I or det E # 1
C15_XrotRejectsNonRotations ==
    (Called("xrot") /\ prim.steps = 1 /\ Is3x3(prim.E)) =>
        IF Orthonormal(prim.E, 1) /\ DetExactlyOne(prim.E, 1)
        THEN /\ ~out["xrot"].raised
             /\ out["xrot"].X = Block(prim.E, Zeros3x3, Zeros3x3, prim.E)
        ELSE /\ out["xrot"].raised
             /\ out["xrot"].exc = InvalidRotation

\* C16: xrot fails with InvalidRotation for every 3x3 matrix whose determinant
\* differs from 1 by more than the tolerance 1e-6 (one millionth), among them
\* every scaled identity s * I with s # 1
C16_XrotRejectsDetOffOne ==
    (Called("xrot") /\ Is3x3(prim.E)
        /\ Abs(DetMillionths(prim.E, prim.steps) - 1000000) > 1) =>
        /\ out["xrot"].raised
        /\ out["xrot"].exc = InvalidRotation

\* C17: for each of the six tags, jcalc(tag, q) returns the same unit basis
\* 6-vector S for every q: Rx, Ry, Rz the angular x, y, z and Px, Py, Pz the
\* linear x, y, z
C17_SubspaceIsUnitBasis ==
    (Called("jcalc") /\ prim.jtype \in JointTags) =>
        /\ ~out["jcalc"].raised
        /\ out["jcalc"].S =
              CASE prim.jtype = "Rx" -> <<1, 0, 0, 0, 0, 0>>
                [] prim.jtype = "Ry" -> <<0, 1, 0, 0, 0, 0>>
                [] prim.jtype = "Rz" -> <<0, 0, 1, 0, 0, 0>>
                [] prim.jtype = "Px" -> <<0, 0, 0, 1, 0, 0>>
                [] prim.jtype = "Py" -> <<0, 0, 0, 0, 1, 0>>
                [] OTHER -> <<0, 0, 0, 0, 0, 1>>

\* jcalc returned for a revolute joint turned and for a prismatic joint extended
C17_Witness ==
    /\ Called("jcalc")
    /\ ~out["jcalc"].raised
    /\ \/ prim.jtype = "Rz" /\ prim.q = 3 /\ out["jcalc"].S = <<0, 0, 1, 0, 0, 0>>
       \/ prim.jtype = "Px" /\ prim.q = -2 /\ out["jcalc"].S = <<0, 0, 0, 1, 0, 0>>

\* C18: for every q, jcalc returns Xj = xrot(rotation by q about x, y, z) for
\* Rx, Ry, Rz and Xj = xlt(q times the x, y, z unit vector) for Px, Py, Pz;
\* jcalc(tag, 0) is I(6) for all six tags, and jcalc("Rz", pi) is xrot of the
\* half turn about z (q counts quarter turns for the revolute tags)
C18_JointTransform ==
    (Called("jcalc") /\ prim.jtype \in JointTags) =>
        LET q == prim.q
            Xj == out["jcalc"].X
            HalfTurnZ == << <<-1, 0, 0>>, <<0, -1, 0>>, <<0, 0, 1>> >>
        IN  /\ ~out["jcalc"].raised
            /\ Xj = CASE prim.jtype = "Rx" -> xrot(RotationAbout("x", q)).X
                      [] prim.jtype = "Ry" -> xrot(RotationAbout("y", q)).X
                      [] prim.jtype = "Rz" -> xrot(RotationAbout("z", q)).X
                      [] prim.jtype = "Px" -> xlt(VecScale(<<1, 0, 0>>, q))
                      [] prim.jtype = "Py" -> xlt(VecScale(<<0, 1, 0>>, q))
                      [] OTHER -> xlt(VecScale(<<0, 0, 1>>, q))
            /\ q = 0 => Xj = Eye6
            /\ (prim.jtype = "Rz" /\ q = 2) =>
                   Xj = Block(HalfTurnZ, Zeros3x3, Zeros3x3, HalfTurnZ)

\* jcalc returned for Ry at one quarter turn, or for Pz at length 2
C18_Witness ==
    /\ Called("jcalc")
    /\ ~out["jcalc"].raised
    /\ \/ /\ prim.jtype = "Ry"
          /\ prim.q = 1
          /\ MatVec(out["jcalc"].X, <<1, 0, 0, 0, 0, 0>>) = <<0, 0, -1, 0, 0, 0>>
       \/ /\ prim.jtype = "Pz"
          /\ prim.q = 2
          /\ MatVec(out["jcalc"].X, <<1, 0, 0, 0, 0, 0>>) = <<1, 0, 0, 0, -2, 0>>

\* C19: jcalc fails with UnsupportedJointType, returning neither Xj nor S, for
\* every tag that is not exactly one of Rx, Ry, Rz, Px, Py, Pz (such as "rx"
\* and the empty tag), whatever q is
C19_OtherTagsRaise ==
    (Called("jcalc") /\ prim.jtype \notin {"Rx", "Ry", "Rz", "Px", "Py", "Pz"}) =>
        /\ out["jcalc"].raised
        /\ out["jcalc"].exc = UnsupportedJointType

\* jcalc raised for "rx" at a quarter turn and for the empty tag
C19_Witness ==
    /\ Called("jcalc")
    /\ out["jcalc"].raised
    /\ \/ prim.jtype = "rx" /\ prim.q = 1
       \/ prim.jtype = "" /\ prim.q = 0

\* the InvalidArgument of the error taxonomy
InvalidArgument == "ValueError: cross_type must be 'motion' or 'force'"

\* C20: for all 6-vectors v and u, spatial_cross(v, u, kind) returns crm(v) . u
\* when kind is motion or omitted, crf(v) . u when kind is force, and fails
\* with InvalidArgument for every other kind
C20_SpatialCrossDispatch ==
    (Called("spatial_cross") /\ IsVector(prim.v, 6) /\ IsVector(prim.u, 6)) =>
        LET kind == prim.cross_type
            r == out["spatial_cross"]
        IN  CASE ~kind.present \/ kind.val = "motion" ->
                   ~r.raised /\ r.val = MatVec(crm(prim.v), prim.u)
              [] kind.present /\ kind.val = "force" ->
                   ~r.raised /\ r.val = MatVec(crf(prim.v), prim.u)
              [] OTHER -> r.raised /\ r.exc = InvalidArgument

\* spatial_cross returned with kind omitted, for a v and u whose motion and
\* force products differ
C20_Witness ==
    /\ ReturnedValue("spatial_cross")
    /\ ~prim.cross_type.present
    /\ prim.v = <<1, 0, -1, 0, 1, 1>>
    /\ prim.u = <<1, 2, 3, 4, 5, 6>>
    /\ out["spatial_cross"].val = <<2, -4, 2, 6, -9, 4>>
    /\ out["spatial_cross"].val # MatVec(crf(prim.v), prim.u)

\* the ShapeError of the error taxonomy, as skew raises it
ShapeError == "AssertionError: Input must be 3x1 vector"

\* C21: skew(v) fails with ShapeError for every v that does not have exactly
\* 3 components, and returns a 3x3 matrix for every v that has exactly 3
C21_SkewShape ==
    Called("skew") =>
        IF Len(prim.v) = 3
        THEN ReturnedValue("skew") /\ Is3x3(out["skew"].val)
        ELSE out["skew"].raised /\ out["skew"].exc = ShapeError

\* skew raised for an array of four components
C21_Witness ==
    /\ Called("skew")
    /\ Len(prim.v) = 4
    /\ out["skew"].raised

\* ------------------------------------------------------------------------
\* rnea: defaults, ordering, locality, precedence

\* C22: omitting f_ext is equivalent to passing an all-zero 6 x NB f_ext: the
\* caller gets the same tau (or the same exception) either way
C22_OmittedFextIsZeros ==
    \A c \in Calls :
        ret[c].kind # "none" =>
            /\ ~args[c].f_ext.present =>
                   ret[c] = RunAlone(model, [args[c] EXCEPT !.f_ext =
                                [present |-> TRUE,
                                 cols |-> [j \in 0..(model.NB - 1) |-> <<0, 0, 0, 0, 0, 0>>]]])
            /\ (/\ args[c].f_ext.present
                /\ args[c].f_ext.cols = [j \in 0..(model.NB - 1) |-> <<0, 0, 0, 0, 0, 0>>]) =>
                   ret[c] = RunAlone(model, [args[c] EXCEPT !.f_ext = NoFext])

\* a call without f_ext returned a torque that is not zero, on two bodies or more
C22_Witness ==
    /\ ret[1].kind = "tau"
    /\ ~args[1].f_ext.present
    /\ model.NB >= 2
    /\ \A i \in 0..(model.NB - 1) : ret[1].tau[i] # 0

\* C23: a model without a gravity entry is treated as one with gravity
\* [0,0,0,0,0,-9.81] (the caller gets the same tau as with that entry given);
\* a model with a gravity entry has that entry used: it is the call's a_grav,
\* and every processed body on the base has a[i] = Xj (-entry) + S qdd[i]
C23_DefaultGravity ==
    \A c \in Calls :
        /\ (ret[c].kind # "none" /\ ~model.gravity.present) =>
               ret[c] = RunAlone([model EXCEPT !.gravity =
                                     [present |-> TRUE, val |-> <<0, 0, 0, 0, 0, -981>>]],
                                 args[c])
        /\ (model.gravity.present /\ frame[c].pc \in {"forward", "backward", "return"}) =>
               /\ frame[c].loc.a_grav = model.gravity.val
               /\ \A i \in ForwardDone(c) :
                      model.parent[i] = -1 =>
                          Buf(c).a[i] =
                              VecAdd(MatVec(JointOf(c, i).X, VecNeg(model.gravity.val)),
                                     VecScale(JointOf(c, i).S, frame[c].loc.qdd[i]))

\* a call on a model without a gravity entry returned a torque that differs
\* from the one the same call gives without gravity
C23_Witness ==
    /\ ret[1].kind = "tau"
    /\ ~model.gravity.present
    /\ model.NB >= 1
    /\ ret[1] # RunAlone([model EXCEPT !.gravity =
                              [present |-> TRUE, val |-> <<0, 0, 0, 0, 0, 0>>]], args[1])

\* the children of body i
Children(i) == { j \in 0..(model.NB - 1) : model.parent[j] = i }

\* C24: backward-sweep ordering, for every model with parent[i] < i: when the
\* backward pass comes to body i (to compute tau[i]) every child of i has been
\* visited and f[i] holds the sum of their (Xj Xtree[j])^T f[j]; the f of a
\* body whose tau has been computed is never written again
C24_BackwardOrder ==
    [][\A c \in Calls :
          (Topological(model) /\ frame[c].pc = "backward") =>
              /\ Children(frame[c].i) \subseteq BackwardDone(c)
              /\ frame[c].i \notin BackwardDone(c)
              /\ Buf(c).f[frame[c].i] = ChildWrenches(c, frame[c].i, model.NB)
              /\ \A k \in BackwardDone(c) :
                     /\ heap'[frame[c].buf].f[k] = Buf(c).f[k]
                     /\ heap'[frame[c].buf].tau[k] = Buf(c).tau[k]]_vars

\* the backward pass has come to a body with two children, whose wrenches it
\* already holds
C24_Witness ==
    /\ frame[1].pc = "backward"
    /\ frame[1].i = 0
    /\ Children(0) = {1, 2}
    /\ BackwardDone(1) = {1, 2}
    /\ Buf(1).f[0] # ZeroVec(6)
    /\ Buf(1).f[0] = ChildWrenches(1, 0, 3)

\* C25: forward-sweep ordering, for every model with parent[i] < i: when the
\* forward pass computes body i from v[p], a[p] of its parent p, body p has
\* been processed in this call; a step writes v and a of the body it is at and
\* of no other, and no body is come to twice, so each v[i], a[i] is written
\* once and never again
C25_ForwardOrder ==
    [][\A c \in Calls :
          (Topological(model) /\ frame[c].pc \in {"forward", "backward", "return"}) =>
              /\ frame[c].pc = "forward" =>
                     /\ frame[c].i \notin ForwardDone(c)
                     /\ model.parent[frame[c].i] # -1 =>
                            model.parent[frame[c].i] \in ForwardDone(c)
              /\ \A k \in 0..(model.NB - 1) :
                     (frame[c].pc # "forward" \/ k # frame[c].i) =>
                         /\ heap'[frame[c].buf].v[k] = Buf(c).v[k]
                         /\ heap'[frame[c].buf].a[k] = Buf(c).a[k]]_vars

\* the forward pass has come to the third body of a chain, its parent moving
C25_Witness ==
    /\ frame[1].pc = "forward"
    /\ frame[1].i = 2
    /\ model.parent[2] = 1
    /\ model.parent[1] = 0
    /\ ForwardDone(1) = {0, 1}
    /\ Buf(1).v[1] # ZeroVec(6)
    /\ Buf(1).a[1] # ZeroVec(6)

\* model m with Xtree[i] of every body on the base replaced by X, and with
\* Xtree[i] of body i replaced by X
WithRootXtree(m, X) ==
    [m EXCEPT !.Xtree = [i \in DOMAIN m.Xtree |-> IF m.parent[i] = -1 THEN X ELSE m.Xtree[i]]]
WithXtree(m, i, X) == [m EXCEPT !.Xtree[i] = X]

\* tree transforms to put in place of a model's
OtherXtrees == { Eye6, xtrans(RotationAbout("x", 1), <<0, 1, 2>>) }

\* C26: Xtree[i] of a body on the base is never used: a call on a model that
\* differs only in those Xtree[i] gives the caller the same tau, and neither
\* pass composes a transform for such a body; for a body not on the base both
\* passes use Xup = Xj Xtree[i]
C26_RootXtreeUnused ==
    \A c \in Calls :
        /\ ret[c].kind # "none" =>
               \A X \in OtherXtrees : ret[c] = RunAlone(WithRootXtree(model, X), args[c])
        /\ \A i \in ForwardDone(c) :
               xlog[c].fwd[i] = IF model.parent[i] = -1 THEN << >>
                                ELSE MatMul(JointOf(c, i).X, model.Xtree[i])
        /\ \A i \in BackwardDone(c) :
               xlog[c].bwd[i] = IF model.parent[i] = -1 THEN << >>
                                ELSE MatMul(JointOf(c, i).X, model.Xtree[i])

\* a call returned on a model with a body on the base whose Xtree is not the
\* identity, and with a body not on the base whose Xtree does change tau
C26_Witness ==
    /\ ret[1].kind = "tau"
    /\ \E i \in 0..(model.NB - 1) : model.parent[i] = -1 /\ model.Xtree[i] # Eye6
    /\ \E i \in 0..(model.NB - 1), X \in OtherXtrees :
           /\ model.parent[i] # -1
           /\ ret[1] # RunAlone(WithXtree(model, i, X), args[1])

\* ------------------------------------------------------------------------
\* rnea: termination and the order of the visits

\* q, qd, qdd of call c have length NB and every joint tag is one of the six
PassesChecks(c) ==
    /\ frame[c].pc # "off"
    /\ ~WrongLength(c)
    /\ \A k \in 0..(model.NB - 1) : model.jtype[k] \in JointTags

\* f_ext of call c is omitted, or has a column for every body
FextCoversBodies(c) ==
    ~args[c].f_ext.present \/ ArrLen(args[c].f_ext.cols) >= model.NB

\* where call c is, against the bodies each pass has visited: the forward pass
\* at body i has visited 0..i-1 and the backward pass none; the backward pass
\* at body i has visited i+1..NB-1 and the forward pass all
VisitOrder(c) ==
    LET nb == model.NB
        i == frame[c].i
    IN  CASE frame[c].pc = "call" -> ForwardDone(c) = {} /\ BackwardDone(c) = {}
          [] frame[c].pc = "forward" ->
                 /\ i \in 0..(nb - 1)
                 /\ ForwardDone(c) = 0..(i - 1)
                 /\ BackwardDone(c) = {}
          [] frame[c].pc = "backward" ->
                 /\ i \in 0..(nb - 1)
                 /\ ForwardDone(c) = 0..(nb - 1)
                 /\ BackwardDone(c) = (i + 1)..(nb - 1)
          [] frame[c].pc = "return" ->
                 ForwardDone(c) = 0..(nb - 1) /\ BackwardDone(c) = 0..(nb - 1)
          [] OTHER -> TRUE

\* call c has returned tau of length NB, both passes having visited every body
ReturnedTau(c) ==
    /\ frame[c].pc = "done"
    /\ ret[c].kind = "tau"
    /\ DOMAIN ret[c].tau = 0..(model.NB - 1)
    /\ ForwardDone(c) = 0..(model.NB - 1)
    /\ BackwardDone(c) = 0..(model.NB - 1)

C27_WitnessEmpty ==
    /\ PassesChecks(1) /\ model.NB = 0 /\ ReturnedTau(1) /\ ret[1].tau = << >>

\* ------------------------------------------------------------------------
\* rnea: locality of the external forces

RECURSIVE IsAncestor(_, _, _)
\* body k is the parent of body j, or the parent of its parent, and so on
IsAncestor(m, k, j) ==
    /\ m.parent[j] # -1
    /\ (m.parent[j] = k \/ IsAncestor(m, k, m.parent[j]))

\* the arguments a with column j of f_ext replaced by w
WithFextColumn(a, j, w) == [a EXCEPT !.f_ext.cols[j] = w]

\* wrenches to put in place of a column of f_ext
OtherWrenches == { ZeroVec(6), <<3, 1, -2, 0, 4, 1>> }

\* C28: on a model with parent[i] < i, a call that differs only in column j of
\* f_ext returns the same tau[k] for every body k that is neither j nor an
\* ancestor of j
C28_FextLocality ==
    \A c \in Calls :
        (/\ ret[c].kind = "tau"
         /\ Topological(model)
         /\ args[c].f_ext.present
         /\ ArrLen(args[c].f_ext.cols) >= model.NB) =>
            \A j \in 0..(model.NB - 1), w \in OtherWrenches :
                LET other == RunAlone(model, WithFextColumn(args[c], j, w))
                IN  /\ other.kind = "tau"
                    /\ \A k \in 0..(model.NB - 1) :
                           (k # j /\ ~IsAncestor(model, k, j)) =>
                               other.tau[k] = ret[c].tau[k]

\* a call returned on a chain of three bodies for which another column 1 of
\* f_ext changes tau[1] and tau[0] and leaves tau[2] as it is
C28_Witness ==
    /\ ret[1].kind = "tau"
    /\ model.NB = 3 /\ model.parent = ParentMap("chain", 3)
    /\ args[1].f_ext.present /\ ArrLen(args[1].f_ext.cols) = 3
    /\ \E w \in OtherWrenches :
           LET other == RunAlone(model, WithFextColumn(args[1], 1, w))
           IN  /\ other.tau[1] # ret[1].tau[1]
               /\ other.tau[0] # ret[1].tau[0]
               /\ other.tau[2] = ret[1].tau[2]

\* ------------------------------------------------------------------------
\* rnea: which error comes first

\* the first of q, qd, qdd of call c whose length is not NB
FirstWrongLength(c) ==
    CASE ArrLen(args[c].q) # model.NB -> "q"
      [] ArrLen(args[c].qd) # model.NB -> "qd"
      [] ArrLen(args[c].qdd) # model.NB -> "qdd"
      [] OTHER -> ""

\* C29: a call with a wrong length fails with DimensionMismatch before any body
\* is processed, whether or not a joint tag is unsupported, and never with
\* UnsupportedJointType; the error names the first of q, qd, qdd, in that
\* order, whose length is wrong
C29_LengthChecksFirst ==
    \A c \in Calls :
        (WrongLength(c) /\ frame[c].pc = "done") =>
            /\ ret[c].kind = "raise"
            /\ ret[c].exc \in DimensionMismatch
            /\ ret[c].exc # UnsupportedJointType
            /\ ret[c].exc =
                   "AssertionError: " \o FirstWrongLength(c) \o " must have length"
            /\ ForwardDone(c) = {} /\ BackwardDone(c) = {}
            /\ heap[c] = NoBuffers

\* a call with an unsupported tag on body 0, q of the right length and qd and
\* qdd of a wrong one raised on qd
C29_Witness ==
    /\ frame[1].pc = "done"
    /\ model.NB >= 1 /\ model.jtype[0] \notin JointTags
    /\ ArrLen(args[1].q) = model.NB
    /\ ArrLen(args[1].qd) # model.NB /\ ArrLen(args[1].qdd) # model.NB
    /\ ret[1].exc = "AssertionError: qd must have length"

\* ------------------------------------------------------------------------
\* rnea: models that are not numbered parent before child

\* every parent[i] is -1 or a body of model m, and some parent[i] is not below i
OutOfOrder(m) ==
    /\ \A i \in 0..(m.NB - 1) : m.parent[i] \in -1..(m.NB - 1)
    /\ \E i \in 0..(m.NB - 1) : m.parent[i] >= i

\* C30: on a model in which some body has parent[i] >= i (every parent[i]
\* below NB, the lengths right, the tags supported, f_ext omitted or with a
\* column for every body) the call raises nothing and returns tau of length
\* NB; when the forward pass comes to such a body, v and a of its parent are
\* still all zero, so v[i] = S qd[i] and a[i] = S qdd[i] + crm(v[i]) S qd[i]
C30_ParentOrderNotValidated ==
    \A c \in Calls :
        (PassesChecks(c) /\ FextCoversBodies(c) /\ OutOfOrder(model)) =>
            /\ ret[c].kind # "raise"
            /\ frame[c].pc = "done" =>
                   ret[c].kind = "tau" /\ DOMAIN ret[c].tau = 0..(model.NB - 1)
            /\ (frame[c].pc = "forward" /\ model.parent[frame[c].i] >= frame[c].i) =>
                   /\ Buf(c).v[model.parent[frame[c].i]] = ZeroVec(6)
                   /\ Buf(c).a[model.parent[frame[c].i]] = ZeroVec(6)
            /\ \A i \in ForwardDone(c) :
                   model.parent[i] >= i =>
                       LET S == JointOf(c, i).S
                           vj == VecScale(S, frame[c].loc.qd[i])
                       IN  /\ Buf(c).v[i] = vj
                           /\ Buf(c).a[i] =
                                  VecAdd(VecScale(S, frame[c].loc.qdd[i]),
                                         MatVec(crm(Buf(c).v[i]), vj))

\* a call returned tau on a chain of two numbered child first: body 0 was
\* processed with the zeros of body 1, whose velocity is not zero
C30_Witness ==
    /\ frame[1].pc = "done" /\ ret[1].kind = "tau"
    /\ model.NB = 2 /\ model.parent = ParentMap("reversed", 2)
    /\ Buf(1).v[1] # ZeroVec(6)
    /\ Buf(1).v[0] = VecScale(JointOf(1, 0).S, frame[1].loc.qd[0])
    /\ DOMAIN ret[1].tau = {0, 1}
====
